---- MODULE Spec2Model ----
(***************************************************************************)
(* Model of rye-init (src/src/main.rs): the in-core inittab (process       *)
(* table), the per-entry flag transitions, and the state-transfer stream   *)
(* written by send_state and read back with get_cmd / get_string /         *)
(* get_void; and of bootlogd (src/src/bootlogd.rs): its ring buffer and    *)
(* write_log.                                                              *)
(*                                                                         *)
(* Text is modelled as a sequence of one-character strings, so that the    *)
(* stream is a sequence of bytes and the reader is a position in it.       *)
(***************************************************************************)
EXTENDS Integers, Sequences, FiniteSets, TLC

VARIABLES
    family,       \* InitState.family: the linked list, head first
    globals,      \* the scalar fields of InitState that send_state reads
    GOT_SIGNALS,  \* static GOT_SIGNALS: AtomicBool
    clock,        \* SystemTime::now() in seconds
    stream,       \* the bytes written by send_state (the reader's input)
    pos,          \* number of bytes of stream the reader has consumed
    pc,           \* position of the state-transfer run
    last,         \* the last operation performed and what it returned
    input,        \* the text or character the next call is given
    GOT_CONT,     \* static GOT_CONT: AtomicBool
    loop,         \* the main loop: where it is, what it polled, what it owes
    bootlogd      \* bootlogd.rs: its RingBuf, the log file fp and first_run

vars ==
    <<family, globals, GOT_SIGNALS, clock, stream, pos, pc, last, input, GOT_CONT, loop,
      bootlogd>>

(***************************************************************************)
(* Bounds of the model.                                                    *)
(***************************************************************************)
MaxChildren == 2      \* longest table explored
MaxPid == 1           \* pids are drawn from 0..MaxPid

(***************************************************************************)
(* Program constants.                                                      *)
(***************************************************************************)
NO_PROCESS == 0
INITTAB_ID == 8
RUNLEVEL_LENGTH == 12
ACTION_LENGTH == 33
PROCESS_LENGTH == 512
WAIT_BETWEEN_SIGNALS == 3

NL == "\n"
VERSION == <<"0", ".", "1", ".", "0">>

None == [none |-> TRUE]

(***************************************************************************)
(* ChildFlags: the bits are modelled by their names, a flag set by a set.  *)
(***************************************************************************)
ChildFlags == {"RUNNING", "KILLME", "DEMAND", "FAILING", "WAITING", "ZOMBIE", "XECUTED"}

(***************************************************************************)
(* Generic sequence helpers.                                               *)
(***************************************************************************)
RECURSIVE Concat(_)
Concat(ss) == IF ss = <<>> THEN <<>> ELSE Head(ss) \o Concat(Tail(ss))

\* str::split(sep): the pieces between separators, empty pieces included
Split(s, sep) ==
    LET seps == {i \in DOMAIN s : s[i] = sep}
        cuts == seps \cup {0, Len(s) + 1}
        Rank(k) == Cardinality({j \in cuts : j <= k})
        Cut(r) == CHOOSE k \in cuts : Rank(k) = r
    IN [r \in 1..(Cardinality(seps) + 1) |-> SubSeq(s, Cut(r) + 1, Cut(r + 1) - 1)]

UpperLetters == <<"A","B","C","D","E","F","G","H","I","J","K","L","M",
                  "N","O","P","Q","R","S","T","U","V","W","X","Y","Z">>
LowerLetters == <<"a","b","c","d","e","f","g","h","i","j","k","l","m",
                  "n","o","p","q","r","s","t","u","v","w","x","y","z">>

to_lowercase_char(c) ==
    IF \E i \in DOMAIN UpperLetters : UpperLetters[i] = c
    THEN LowerLetters[CHOOSE i \in DOMAIN UpperLetters : UpperLetters[i] = c]
    ELSE c

to_lowercase(s) == [i \in DOMAIN s |-> to_lowercase_char(s[i])]

(***************************************************************************)
(* InitAction and its keywords.                                            *)
(***************************************************************************)
kw_respawn == <<"r","e","s","p","a","w","n">>
kw_wait == <<"w","a","i","t">>
kw_once == <<"o","n","c","e">>
kw_boot == <<"b","o","o","t">>
kw_bootwait == <<"b","o","o","t","w","a","i","t">>
kw_powerfail == <<"p","o","w","e","r","f","a","i","l">>
kw_powerwait == <<"p","o","w","e","r","w","a","i","t">>
kw_powerokwait == <<"p","o","w","e","r","o","k","w","a","i","t">>
kw_ctrlaltdel == <<"c","t","r","l","a","l","t","d","e","l">>
kw_off == <<"o","f","f">>
kw_ondemand == <<"o","n","d","e","m","a","n","d">>
kw_initdefault == <<"i","n","i","t","d","e","f","a","u","l","t">>
kw_sysinit == <<"s","y","s","i","n","i","t">>
kw_powerfailnow == <<"p","o","w","e","r","f","a","i","l","n","o","w">>
kw_kbrequest == <<"k","b","r","e","q","u","e","s","t">>

InitAction == {"Respawn", "Wait", "Once", "Boot", "BootWait", "PowerFail",
               "PowerWait", "PowerOkWait", "CtrlAltDel", "Off", "OnDemand",
               "InitDefault", "SysInit", "PowerFailNow", "KbRequest"}

NoAction == "None"    \* Option<InitAction>::None

\* InitAction::from_str
InitAction_from_str(s) ==
    LET l == to_lowercase(s) IN
    CASE l = kw_respawn -> "Respawn"
      [] l = kw_wait -> "Wait"
      [] l = kw_once -> "Once"
      [] l = kw_boot -> "Boot"
      [] l = kw_bootwait -> "BootWait"
      [] l = kw_powerfail -> "PowerFail"
      [] l = kw_powerwait -> "PowerWait"
      [] l = kw_powerokwait -> "PowerOkWait"
      [] l = kw_ctrlaltdel -> "CtrlAltDel"
      [] l = kw_off -> "Off"
      [] l = kw_ondemand -> "OnDemand"
      [] l = kw_initdefault -> "InitDefault"
      [] l = kw_sysinit -> "SysInit"
      [] l = kw_powerfailnow -> "PowerFailNow"
      [] l = kw_kbrequest -> "KbRequest"
      [] OTHER -> NoAction

(***************************************************************************)
(* Child.  The next pointer is the order of the sequence that holds the    *)
(* entries; new (the entry staged by an inittab re-read) is None in every  *)
(* constructor.                                                            *)
(***************************************************************************)
\* Child::from_inittab_line
from_inittab_line(line, now) ==
    LET parts == Split(line, ":") IN
    IF Len(parts) # 4 THEN None
    ELSE IF \/ Len(parts[1]) > INITTAB_ID
            \/ Len(parts[2]) > RUNLEVEL_LENGTH
            \/ Len(parts[3]) > ACTION_LENGTH
            \/ Len(parts[4]) > PROCESS_LENGTH
    THEN None
    ELSE IF InitAction_from_str(parts[3]) = NoAction THEN None
    ELSE [flags |-> {}, exstat |-> 0, pid |-> NO_PROCESS, tm |-> now, count |-> 0,
          id |-> parts[1], rlevel |-> parts[2],
          action |-> InitAction_from_str(parts[3]), process |-> parts[4],
          new |-> None]

\* create_emergency_shell
create_emergency_shell(now) ==
    [flags |-> {"WAITING"}, exstat |-> 0, pid |-> NO_PROCESS, tm |-> now, count |-> 0,
     id |-> <<"~", "~">>, rlevel |-> <<"S">>, action |-> "Once",
     process |-> <<"/","s","b","i","n","/","s","u","l","o","g","i","n">>,
     new |-> None]

\* create_poweroff_child
create_poweroff_child(now) ==
    [flags |-> {}, exstat |-> 0, pid |-> NO_PROCESS, tm |-> now, count |-> 0,
     id |-> <<"~", "~">>, rlevel |-> <<"S">>, action |-> "Once",
     process |-> <<"/","s","b","i","n","/","s","h","u","t","d","o","w","n",
                   " ","-","h","P"," ","n","o","w">>,
     new |-> None]

\* Child::mark_running
mark_running(c) == [c EXCEPT !.flags = @ \cup {"RUNNING"}]

\* Child::mark_zombie
mark_zombie(c) == [c EXCEPT !.flags = (@ \ {"RUNNING"}) \cup {"ZOMBIE"}]

\* Child::mark_executed
mark_executed(c) == [c EXCEPT !.flags = @ \cup {"XECUTED"}]

\* Child::is_running
is_running(c) == "RUNNING" \in c.flags

(***************************************************************************)
(* InitState: the table operations, as functions of the list.              *)
(***************************************************************************)
\* InitState::new, the scalar fields send_state reads
InitState_new ==
    [wrote_wtmp_reboot |-> TRUE, wrote_utmp_reboot |-> TRUE,
     wrote_wtmp_rlevel |-> TRUE, wrote_utmp_rlevel |-> TRUE,
     curlevel |-> "S", prevlevel |-> "N",
     sleep_time |-> WAIT_BETWEEN_SIGNALS, did_boot |-> FALSE]

\* add_child with the new entry linked at the tail instead of the head
add_child_at_tail(fam, child) == fam \o <<child>>

\* InitState::add_child: the new entry becomes the head
add_child(fam, child) == <<child>> \o fam

\* the first of the indices the scan of the list would stop at, 0 if there is none
FirstIndex(hits) ==
    IF hits = {} THEN 0 ELSE CHOOSE i \in hits : \A j \in hits : i <= j

\* InitState::find_child_by_id
find_child_by_id(fam, id) ==
    LET i == FirstIndex({k \in DOMAIN fam : fam[k].id = id})
    IN IF i = 0 THEN None ELSE fam[i]

\* InitState::find_child_by_pid
find_child_by_pid(fam, pid) ==
    LET i == FirstIndex({k \in DOMAIN fam : fam[k].pid = pid})
    IN IF i = 0 THEN None ELSE fam[i]

\* the head of the list is unlinked whenever some entry has the pid
remove_head_on_match(fam, pid) ==
    IF \A k \in DOMAIN fam : fam[k].pid # pid THEN [family |-> fam, removed |-> None]
    ELSE [family |-> Tail(fam), removed |-> Head(fam)]

\* InitState::remove_child_by_pid: the list after the call and the value returned
remove_child_by_pid(fam, pid) ==
    LET i == FirstIndex({k \in DOMAIN fam : fam[k].pid = pid})
    IN IF i = 0 THEN [family |-> fam, removed |-> None]
       ELSE [family |-> SubSeq(fam, 1, i - 1) \o SubSeq(fam, i + 1, Len(fam)),
             removed |-> fam[i]]

(***************************************************************************)
(* The state-transfer stream: what send_state writes.                      *)
(***************************************************************************)
Digits == <<"0", "1", "2", "3", "4", "5", "6", "7", "8", "9">>

\* Display of an integer: decimal digits, a minus sign before a negative one
RECURSIVE NatToDec(_)
NatToDec(n) ==
    IF n < 10 THEN <<Digits[n + 1]>>
    ELSE NatToDec(n \div 10) \o <<Digits[(n % 10) + 1]>>

ToDec(n) == IF n < 0 THEN <<"-">> \o NatToDec(0 - n) ELSE NatToDec(n)

\* the 0 / 1 written for a bool
BoolDigit(b) == IF b THEN <<"1">> ELSE <<"0">>

\* STATE_COMMANDS
STATE_COMMANDS ==
    << [name |-> <<"V","E","R">>, cmd |-> "Ver"],
       [name |-> <<"E","N","D">>, cmd |-> "End"],
       [name |-> <<"R","E","C">>, cmd |-> "Rec"],
       [name |-> <<"E","O","R">>, cmd |-> "Eor"],
       [name |-> <<"L","E","V">>, cmd |-> "Lev"],
       [name |-> <<"F","L"," ">>, cmd |-> "Flag"],
       [name |-> <<"A","C"," ">>, cmd |-> "Action"],
       [name |-> <<"C","M","D">>, cmd |-> "Process"],
       [name |-> <<"P","I","D">>, cmd |-> "Pid"],
       [name |-> <<"E","X","S">>, cmd |-> "Exs"],
       [name |-> <<"-","R","L">>, cmd |-> "Runlevel"],
       [name |-> <<"-","T","L">>, cmd |-> "ThisLevel"],
       [name |-> <<"-","P","L">>, cmd |-> "PrevLevel"],
       [name |-> <<"-","S","I">>, cmd |-> "GotSign"],
       [name |-> <<"-","W","R">>, cmd |-> "WroteWtmpReboot"],
       [name |-> <<"-","W","U">>, cmd |-> "WroteUtmpReboot"],
       [name |-> <<"-","S","T">>, cmd |-> "SlTime"],
       [name |-> <<"-","D","B">>, cmd |-> "DidBoot"],
       [name |-> <<"-","L","W">>, cmd |-> "WroteWtmpRlevel"],
       [name |-> <<"-","L","U">>, cmd |-> "WroteUtmpRlevel"] >>

\* FLAG_MAPPINGS
FLAG_MAPPINGS ==
    << [name |-> <<"R","U">>, mask |-> "RUNNING"],
       [name |-> <<"D","E">>, mask |-> "DEMAND"],
       [name |-> <<"X","D">>, mask |-> "XECUTED"],
       [name |-> <<"W","T">>, mask |-> "WAITING"] >>

\* writeln!(writer, "<token>{}", value)
Line(token, value) == token \o value \o <<NL>>

\* send_state, the match that names the action
action_name(a) ==
    CASE a = "Respawn" -> kw_respawn
      [] a = "Wait" -> kw_wait
      [] a = "Once" -> kw_once
      [] a = "Boot" -> kw_boot
      [] a = "BootWait" -> kw_bootwait
      [] a = "PowerFail" -> kw_powerfail
      [] a = "PowerWait" -> kw_powerwait
      [] a = "PowerOkWait" -> kw_powerokwait
      [] a = "CtrlAltDel" -> kw_ctrlaltdel
      [] a = "Off" -> kw_off
      [] a = "OnDemand" -> kw_ondemand
      [] a = "InitDefault" -> kw_initdefault
      [] a = "SysInit" -> kw_sysinit
      [] a = "PowerFailNow" -> kw_powerfailnow
      [] a = "KbRequest" -> kw_kbrequest

\* send_state, the lines of the globals
send_globals(g, got_signals) ==
    Concat(<< Line(<<"V","E","R">>, VERSION),
              Line(<<"-","R","L">>, <<g.curlevel>>),
              Line(<<"-","T","L">>, <<g.curlevel>>),
              Line(<<"-","P","L">>, <<g.prevlevel>>),
              Line(<<"-","S","I">>, BoolDigit(got_signals)),
              Line(<<"-","W","R">>, BoolDigit(g.wrote_wtmp_reboot)),
              Line(<<"-","W","U">>, BoolDigit(g.wrote_utmp_reboot)),
              Line(<<"-","S","T">>, ToDec(g.sleep_time)),
              Line(<<"-","D","B">>, BoolDigit(g.did_boot)) >>)

\* send_state, the loop over FLAG_MAPPINGS: one line per mapping whose mask is set
send_flags(flags) ==
    Concat([k \in DOMAIN FLAG_MAPPINGS |->
              IF FLAG_MAPPINGS[k].mask \in flags
              THEN Line(<<"F","L"," ">>, FLAG_MAPPINGS[k].name)
              ELSE <<>>])

\* send_state, the body of the loop over the list: one record
send_record(child) ==
    Concat(<< Line(<<"R","E","C">>, child.id),
              Line(<<"L","E","V">>, child.rlevel),
              send_flags(child.flags),
              Line(<<"P","I","D">>, ToDec(child.pid)),
              Line(<<"E","X","S">>, ToDec(child.exstat)),
              Line(<<"A","C"," ">>, action_name(child.action)),
              Line(<<"C","M","D">>, child.process),
              Line(<<"E","O","R">>, <<>>) >>)

\* send_records walking the list from its tail
send_records_tail_first(fam) ==
    Concat([i \in DOMAIN fam |-> send_record(fam[Len(fam) + 1 - i])])

\* send_state, the loop over the list, head first
send_records(fam) == Concat([i \in DOMAIN fam |-> send_record(fam[i])])

\* send_state with a writer that accepts every byte
send_state(g, got_signals, fam) ==
    send_globals(g, got_signals) \o send_records(fam) \o Line(<<"E","N","D">>, <<>>)

(***************************************************************************)
(* The readers.  A reader is the stream and the number of bytes consumed;  *)
(* each primitive returns its value, the new position and whether it       *)
(* returned Err.                                                           *)
(***************************************************************************)
\* Read::read_exact on an in-memory stream: n bytes, or UnexpectedEof with
\* the rest of the stream consumed
read_exact(s, p, n) ==
    IF p + n <= Len(s)
    THEN [kind |-> "Ok", bytes |-> SubSeq(s, p + 1, p + n), pos |-> p + n]
    ELSE [kind |-> "UnexpectedEof", bytes |-> <<>>, pos |-> Len(s)]

\* get_string
RECURSIVE get_string_loop(_, _, _, _)
get_string_loop(s, p, max_size, result) ==
    IF ~(Len(result) < max_size) THEN [val |-> result, pos |-> p, err |-> FALSE]
    ELSE LET r == read_exact(s, p, 1) IN
         CASE r.kind = "Ok" ->
                IF r.bytes[1] = NL
                THEN [val |-> result, pos |-> r.pos, err |-> FALSE]
                ELSE get_string_loop(s, r.pos, max_size, Append(result, r.bytes[1]))
           [] r.kind = "UnexpectedEof" -> [val |-> result, pos |-> r.pos, err |-> FALSE]
           [] OTHER -> [val |-> result, pos |-> r.pos, err |-> TRUE]

\* get_string with read_exact(..)? in place of the match: UnexpectedEof is returned
RECURSIVE get_string_try_loop(_, _, _, _)
get_string_try_loop(s, p, max_size, result) ==
    IF ~(Len(result) < max_size) THEN [val |-> result, pos |-> p, err |-> FALSE]
    ELSE LET r == read_exact(s, p, 1) IN
         IF r.kind = "Ok"
         THEN IF r.bytes[1] = NL
              THEN [val |-> result, pos |-> r.pos, err |-> FALSE]
              ELSE get_string_try_loop(s, r.pos, max_size, Append(result, r.bytes[1]))
         ELSE [val |-> <<>>, pos |-> r.pos, err |-> TRUE]

get_string_try(s, p, max_size) == get_string_try_loop(s, p, max_size, <<>>)

get_string(s, p, max_size) == get_string_loop(s, p, max_size, <<>>)

\* get_void
RECURSIVE get_void(_, _)
get_void(s, p) ==
    LET r == read_exact(s, p, 1) IN
    CASE r.kind = "Ok" ->
           IF r.bytes[1] = NL
           THEN [val |-> TRUE, pos |-> r.pos, err |-> FALSE]
           ELSE get_void(s, r.pos)
      [] r.kind = "UnexpectedEof" -> [val |-> FALSE, pos |-> r.pos, err |-> FALSE]
      [] OTHER -> [val |-> FALSE, pos |-> r.pos, err |-> TRUE]

\* get_cmd
get_cmd(s, p) ==
    LET r == read_exact(s, p, 3) IN
    IF r.kind = "Ok"
    THEN IF \E k \in DOMAIN STATE_COMMANDS : STATE_COMMANDS[k].name = r.bytes
         THEN [val |-> STATE_COMMANDS[CHOOSE k \in DOMAIN STATE_COMMANDS :
                                         STATE_COMMANDS[k].name = r.bytes].cmd,
               pos |-> r.pos, err |-> FALSE]
         ELSE [val |-> "Eof", pos |-> r.pos, err |-> FALSE]
    ELSE [val |-> "Eof", pos |-> r.pos, err |-> FALSE]

(***************************************************************************)
(* The receiving side.  The repository has the three primitives above and  *)
(* no caller of them; the loop below is the decoder the design describes,  *)
(* built on those primitives, on STATE_COMMANDS, FLAG_MAPPINGS and         *)
(* InitAction::from_str: a global line sets its global, REC opens a        *)
(* record, EOR appends it after the records read so far, END or Eof stops, *)
(* a line that cannot be used is skipped.                                  *)
(***************************************************************************)
\* Child::new
Child_new(now) ==
    [flags |-> {}, exstat |-> 0, pid |-> NO_PROCESS, tm |-> now, count |-> 0,
     id |-> <<>>, rlevel |-> <<>>, action |-> "Once", process |-> <<>>,
     new |-> None]

IsDigit(c) == \E d \in DOMAIN Digits : Digits[d] = c

DigitVal(c) == (CHOOSE d \in DOMAIN Digits : Digits[d] = c) - 1

RECURSIVE ParseNat(_, _)
ParseNat(v, acc) ==
    IF v = <<>> THEN acc ELSE ParseNat(Tail(v), 10 * acc + DigitVal(Head(v)))

IsNat(v) == v # <<>> /\ \A i \in DOMAIN v : IsDigit(v[i])

IsInt(v) == IsNat(v) \/ (v # <<>> /\ Head(v) = "-" /\ IsNat(Tail(v)))

\* str::parse of a decimal; the default stands when the text is no number
ParseInt(v, default) ==
    IF IsNat(v) THEN ParseNat(v, 0)
    ELSE IF IsInt(v) THEN 0 - ParseNat(Tail(v), 0)
    ELSE default

ParseBool(v, default) ==
    IF IsInt(v) THEN ParseInt(v, 0) # 0 ELSE default

ParseChar(v, default) == IF v = <<>> THEN default ELSE v[1]

FlagOfName(name) ==
    IF \E k \in DOMAIN FLAG_MAPPINGS : FLAG_MAPPINGS[k].name = name
    THEN {FLAG_MAPPINGS[CHOOSE k \in DOMAIN FLAG_MAPPINGS : FLAG_MAPPINGS[k].name = name].mask}
    ELSE {}

GlobalTokens == {"Ver", "Runlevel", "ThisLevel", "PrevLevel", "GotSign",
                 "WroteWtmpReboot", "WroteUtmpReboot", "SlTime", "DidBoot",
                 "WroteWtmpRlevel", "WroteUtmpRlevel"}

\* the effect of one global line on the state being rebuilt
recv_global(acc, tok, v) ==
    CASE tok = "Runlevel" -> [acc EXCEPT !.globals.curlevel = ParseChar(v, @)]
      [] tok = "ThisLevel" -> [acc EXCEPT !.globals.curlevel = ParseChar(v, @)]
      [] tok = "PrevLevel" -> [acc EXCEPT !.globals.prevlevel = ParseChar(v, @)]
      [] tok = "GotSign" -> [acc EXCEPT !.got_signals = ParseBool(v, @)]
      [] tok = "WroteWtmpReboot" -> [acc EXCEPT !.globals.wrote_wtmp_reboot = ParseBool(v, @)]
      [] tok = "WroteUtmpReboot" -> [acc EXCEPT !.globals.wrote_utmp_reboot = ParseBool(v, @)]
      [] tok = "WroteWtmpRlevel" -> [acc EXCEPT !.globals.wrote_wtmp_rlevel = ParseBool(v, @)]
      [] tok = "WroteUtmpRlevel" -> [acc EXCEPT !.globals.wrote_utmp_rlevel = ParseBool(v, @)]
      [] tok = "SlTime" -> [acc EXCEPT !.globals.sleep_time = ParseInt(v, @)]
      [] tok = "DidBoot" -> [acc EXCEPT !.globals.did_boot = ParseBool(v, @)]
      [] tok = "Ver" -> [acc EXCEPT !.version = v]

\* the effect of one line of a record on the entry being rebuilt
recv_field(child, tok, v) ==
    CASE tok = "Lev" -> [child EXCEPT !.rlevel = v]
      [] tok = "Flag" -> [child EXCEPT !.flags = @ \cup FlagOfName(v)]
      [] tok = "Pid" -> [child EXCEPT !.pid = ParseInt(v, @)]
      [] tok = "Exs" -> [child EXCEPT !.exstat = ParseInt(v, @)]
      [] tok = "Action" ->
           [child EXCEPT !.action =
               IF InitAction_from_str(v) = NoAction THEN @ ELSE InitAction_from_str(v)]
      [] tok = "Process" -> [child EXCEPT !.process = v]

FieldTokens == {"Lev", "Flag", "Pid", "Exs", "Action", "Process"}

FieldSize(tok) ==
    CASE tok = "Lev" -> RUNLEVEL_LENGTH
      [] tok = "Action" -> ACTION_LENGTH
      [] OTHER -> PROCESS_LENGTH

RECURSIVE recv_top(_, _, _), recv_rec(_, _, _, _)
recv_top(s, p, acc) ==
    LET c == get_cmd(s, p) IN
    CASE c.val \in {"Eof", "End"} -> [acc EXCEPT !.pos = c.pos, !.stop = c.val]
      [] c.val = "Rec" ->
           LET v == get_string(s, c.pos, INITTAB_ID)
           IN recv_rec(s, v.pos, acc, [Child_new(acc.now) EXCEPT !.id = v.val])
      [] c.val \in GlobalTokens ->
           LET v == get_string(s, c.pos, PROCESS_LENGTH)
           IN recv_top(s, v.pos, recv_global(acc, c.val, v.val))
      [] OTHER -> recv_top(s, get_void(s, c.pos).pos, acc)

recv_rec(s, p, acc, child) ==
    LET c == get_cmd(s, p) IN
    CASE c.val \in {"Eof", "End"} -> [acc EXCEPT !.pos = c.pos, !.stop = c.val]
      [] c.val = "Eor" ->
           recv_top(s, get_void(s, c.pos).pos,
                    [acc EXCEPT !.family = Append(@, child)])
      [] c.val \in FieldTokens ->
           LET v == get_string(s, c.pos, FieldSize(c.val))
           IN recv_rec(s, v.pos, acc, recv_field(child, c.val, v.val))
      [] OTHER -> recv_rec(s, get_void(s, c.pos).pos, acc, child)

receive_state(s, now) ==
    recv_top(s, 0, [globals |-> InitState_new, got_signals |-> FALSE, family |-> <<>>,
                    version |-> <<>>, now |-> now, pos |-> 0, stop |-> "Eof"])

(***************************************************************************)
(* The process table as a state machine.                                   *)
(***************************************************************************)
\* inittab lines offered to the table: a well-formed one and a malformed one
InittabLines ==
    { <<"a", ":", "2", "3", ":", "r", "e", "s", "p", "a", "w", "n", ":", "/", "x">>,
      <<"c", ":", "2", ":", "n", "o", "p", "e", ":", "/", "z">> }

Pids == 0..MaxPid

Ids == {<<"a">>, <<"~", "~">>}

\* bytes in bootlogd's ring buffer: RINGBUF_SIZE (32768) scaled down
RingSize == 4

RINGBUF_SIZE == RingSize

\* RingBuf::new; buf[k + 1] is the byte at index k
RingBuf_new == [buf |-> [k \in 1..RINGBUF_SIZE |-> 0], in_idx |-> 0, out_idx |-> 0]

\* bootlogd before it has read or logged anything
BootlogdStart == [ring |-> RingBuf_new, fp |-> <<>>, first_run |-> TRUE]

\* the main loop before its first iteration
LoopStart ==
    [pc |-> "poll", flag |-> "GOT_CONT", unobserved |-> {}, delivered |-> 0, dispatched |-> 0]

\* the parts of the state a specification does not use
Idle == input = <<>> /\ GOT_CONT = FALSE /\ loop = LoopStart /\ bootlogd = BootlogdStart

Init ==
    /\ family = <<>>
    /\ globals = InitState_new
    /\ GOT_SIGNALS = FALSE
    /\ clock = 0
    /\ stream = <<>>
    /\ pos = 0
    /\ pc = "table"
    /\ last = [op |-> "new", arg |-> 0, found |-> FALSE]
    /\ Idle

TableFrame == UNCHANGED <<bootlogd, input, GOT_CONT, loop, globals, GOT_SIGNALS, clock, stream, pos, pc>>

\* a validated inittab record is added to the table
AddFromInittab ==
    \E line \in InittabLines :
        /\ Len(family) < MaxChildren
        /\ from_inittab_line(line, clock) # None
        /\ family' = add_child(family, from_inittab_line(line, clock))
        /\ last' = [op |-> "add", arg |-> from_inittab_line(line, clock), found |-> TRUE]
        /\ TableFrame

AddEmergencyShell ==
    /\ Len(family) < MaxChildren
    /\ family' = add_child(family, create_emergency_shell(clock))
    /\ last' = [op |-> "add", arg |-> create_emergency_shell(clock), found |-> TRUE]
    /\ TableFrame

AddPoweroffChild ==
    /\ Len(family) < MaxChildren
    /\ family' = add_child(family, create_poweroff_child(clock))
    /\ last' = [op |-> "add", arg |-> create_poweroff_child(clock), found |-> TRUE]
    /\ TableFrame

RemoveChildByPid ==
    \E pid \in Pids :
        /\ family' = remove_child_by_pid(family, pid).family
        /\ last' = [op |-> "remove", arg |-> pid,
                    found |-> remove_child_by_pid(family, pid).removed # None]
        /\ TableFrame

FindChildById ==
    \E id \in Ids :
        /\ last' = [op |-> "find_id", arg |-> 0,
                    found |-> find_child_by_id(family, id) # None]
        /\ UNCHANGED family
        /\ TableFrame

FindChildByPid ==
    \E pid \in Pids :
        /\ last' = [op |-> "find_pid", arg |-> 0,
                    found |-> find_child_by_pid(family, pid) # None]
        /\ UNCHANGED family
        /\ TableFrame

MarkRunning ==
    \E i \in DOMAIN family :
        /\ family' = [family EXCEPT ![i] = mark_running(@)]
        /\ last' = [op |-> "mark_running", arg |-> 0, found |-> TRUE]
        /\ TableFrame

MarkZombie ==
    \E i \in DOMAIN family :
        /\ family' = [family EXCEPT ![i] = mark_zombie(@)]
        /\ last' = [op |-> "mark_zombie", arg |-> 0, found |-> TRUE]
        /\ TableFrame

MarkExecuted ==
    \E i \in DOMAIN family :
        /\ family' = [family EXCEPT ![i] = mark_executed(@)]
        /\ last' = [op |-> "mark_executed", arg |-> 0, found |-> TRUE]
        /\ TableFrame

\* a spawn gives the entry the pid the OS returned, one no live child holds
Spawn ==
    \E i \in DOMAIN family, pid \in Pids \ {NO_PROCESS} :
        /\ family[i].pid = NO_PROCESS
        /\ \A j \in DOMAIN family : family[j].pid # pid
        /\ family' = [family EXCEPT ![i] = mark_running([@ EXCEPT !.pid = pid])]
        /\ last' = [op |-> "spawn", arg |-> 0, found |-> TRUE]
        /\ TableFrame

Next ==
    \/ AddFromInittab
    \/ AddEmergencyShell
    \/ AddPoweroffChild
    \/ RemoveChildByPid
    \/ FindChildById
    \/ FindChildByPid
    \/ MarkRunning
    \/ MarkZombie
    \/ MarkExecuted
    \/ Spawn

Spec == Init /\ [][Next]_vars

(***************************************************************************)
(* The state transfer as a state machine: send_state on a generated state, *)
(* then the decoder on what was written.                                   *)
(***************************************************************************)
\* flag sets of the generated entries: empty, each single bit, all bits
FlagSets == {fs \in SUBSET ChildFlags : Cardinality(fs) <= 1} \cup {ChildFlags}

\* an entry as parsed from its inittab line, and one that has run
BaseChildren ==
    { from_inittab_line(<<"a", ":", "2", "3", ":", "r", "e", "s", "p", "a", "w", "n",
                          ":", "/", "x">>, 0),
      [create_emergency_shell(0) EXCEPT !.pid = 12, !.exstat = 256] }

CodecChildren == { [c EXCEPT !.flags = fs] : c \in BaseChildren, fs \in FlagSets }

RECURSIVE Tables(_, _)
Tables(children, n) ==
    IF n = 0 THEN {<<>>}
    ELSE Tables(children, n - 1)
         \cup {<<c>> \o t : c \in children,
                            t \in {u \in Tables(children, n - 1) : Len(u) = n - 1}}

CodecGlobals ==
    [wrote_wtmp_reboot : BOOLEAN, wrote_utmp_reboot : BOOLEAN,
     wrote_wtmp_rlevel : BOOLEAN, wrote_utmp_rlevel : BOOLEAN,
     curlevel : {"S", "3"}, prevlevel : {"N", "2"},
     sleep_time : {WAIT_BETWEEN_SIGNALS, 15}, did_boot : BOOLEAN]

\* the generated states: every table with the globals of InitState::new, and
\* every combination of globals with the empty table
CodecInit ==
    /\ \/ /\ family \in Tables(CodecChildren, MaxChildren)
          /\ globals = InitState_new
          /\ GOT_SIGNALS = FALSE
       \/ /\ family = <<>>
          /\ globals \in CodecGlobals
          /\ GOT_SIGNALS \in BOOLEAN
    /\ clock = 0
    /\ stream = <<>>
    /\ pos = 0
    /\ pc = "encode"
    /\ last = [op |-> "new", arg |-> 0, found |-> FALSE]
    /\ Idle

SendState ==
    /\ pc = "encode"
    /\ stream' = send_state(globals, GOT_SIGNALS, family)
    /\ pc' = "sent"
    /\ last' = [op |-> "send_state", arg |-> 0, found |-> TRUE]
    /\ UNCHANGED <<bootlogd, input, GOT_CONT, loop, family, globals, GOT_SIGNALS, clock, pos>>

ReceiveState ==
    /\ pc = "sent"
    /\ pc' = "received"
    /\ pos' = receive_state(stream, clock).pos
    /\ last' = [op |-> "receive_state", arg |-> receive_state(stream, clock), found |-> TRUE]
    /\ UNCHANGED <<bootlogd, input, GOT_CONT, loop, family, globals, GOT_SIGNALS, clock, stream>>

CodecNext == SendState \/ ReceiveState

SpecCodec == CodecInit /\ [][CodecNext]_vars

(***************************************************************************)
(* The reader as a state machine: the primitives called in any order on a  *)
(* stream that send_state wrote, on such a stream cut off at any byte, and *)
(* on one that carries a line of a later protocol version.                 *)
(***************************************************************************)
ReaderTables ==
    { <<>>,
      <<[create_emergency_shell(0) EXCEPT !.pid = 12, !.flags = {"RUNNING", "XECUTED"}]>> }

\* a line whose token is not in STATE_COMMANDS
ForeignLine == <<"-", "X", "Y", "7", NL>>

ReaderInit ==
    /\ family \in ReaderTables
    /\ globals = InitState_new
    /\ GOT_SIGNALS = FALSE
    /\ clock = 0
    /\ stream = <<>>
    /\ pos = 0
    /\ pc = "encode"
    /\ last = [op |-> "new", arg |-> 0, found |-> FALSE]
    /\ Idle

LineStart(s, p) == p = 0 \/ (p \in DOMAIN s /\ s[p] = NL)

\* the writer stops accepting bytes, or the stream is cut in transit
CutStream ==
    \E k \in 0..(Len(stream) - 1) :
        /\ pc = "sent"
        /\ pos = 0
        /\ stream' = SubSeq(stream, 1, k)
        /\ pc' = "cut"
        /\ last' = [op |-> "cut", arg |-> k, found |-> TRUE]
        /\ UNCHANGED <<bootlogd, input, GOT_CONT, loop, family, globals, GOT_SIGNALS, clock, pos>>

\* the sender is a later version: one more line, with a token of its own
NewerSender ==
    \E k \in 0..(Len(stream) - 1) :
        /\ pc = "sent"
        /\ pos = 0
        /\ LineStart(stream, k)
        /\ stream' = SubSeq(stream, 1, k) \o ForeignLine \o SubSeq(stream, k + 1, Len(stream))
        /\ pc' = "foreign"
        /\ last' = [op |-> "foreign", arg |-> k, found |-> TRUE]
        /\ UNCHANGED <<bootlogd, input, GOT_CONT, loop, family, globals, GOT_SIGNALS, clock, pos>>

Reading == pc \in {"sent", "cut", "foreign"}

GetCmd ==
    /\ Reading
    /\ pos' = get_cmd(stream, pos).pos
    /\ last' = [op |-> "get_cmd", from |-> pos, res |-> get_cmd(stream, pos)]
    /\ UNCHANGED <<bootlogd, input, GOT_CONT, loop, family, globals, GOT_SIGNALS, clock, stream, pc>>

GetString ==
    \E max_size \in {INITTAB_ID, PROCESS_LENGTH} :
        /\ Reading
        /\ pos' = get_string(stream, pos, max_size).pos
        /\ last' = [op |-> "get_string", from |-> pos, max_size |-> max_size,
                    res |-> get_string(stream, pos, max_size)]
        /\ UNCHANGED <<bootlogd, input, GOT_CONT, loop, family, globals, GOT_SIGNALS, clock, stream, pc>>

GetVoid ==
    /\ Reading
    /\ pos' = get_void(stream, pos).pos
    /\ last' = [op |-> "get_void", from |-> pos, res |-> get_void(stream, pos)]
    /\ UNCHANGED <<bootlogd, input, GOT_CONT, loop, family, globals, GOT_SIGNALS, clock, stream, pc>>

ReaderNext == SendState \/ CutStream \/ NewerSender \/ GetCmd \/ GetString \/ GetVoid

SpecReader == ReaderInit /\ [][ReaderNext]_vars

(***************************************************************************)
(* Properties of the process table (checked under Spec).                   *)
(***************************************************************************)

\* C1: in every reachable state of the table no two entries have the same id
\* (an add whose id is already in the table would have to fail).
C1_NoTwoEntriesShareId ==
    \A i, j \in DOMAIN family : i # j => family[i].id # family[j].id

\* C8: for every entry, in every reachable state, pid is set (differs from
\* NO_PROCESS) exactly when the flags contain RUNNING or ZOMBIE.
C8_PidSetIffRunningOrZombie ==
    \A i \in DOMAIN family :
        (family[i].pid # NO_PROCESS) <=> (family[i].flags \cap {"RUNNING", "ZOMBIE"} # {})

\* some running or awaiting-reap entry of the table holds this pid
HeldByLiveEntry(fam, pid) ==
    \E i \in DOMAIN fam : fam[i].pid = pid /\ fam[i].flags \cap {"RUNNING", "ZOMBIE"} # {}

\* C9: remove_by_pid with a pid that no running or awaiting-reap entry holds
\* (NO_PROCESS included) leaves the table, its order and its entries unchanged.
C9_UnknownPidRemovesNothing ==
    [][(last'.op = "remove" /\ ~HeldByLiveEntry(family, last'.arg)) => family' = family]_vars

\* C10: after add(entry) the new entry is the first of the table and the
\* entries that were there follow it, in their order and with their values.
C10_AddPrepends ==
    [][last'.op = "add" => (family'[1] = last'.arg /\ Tail(family') = family)]_vars

\* an add onto a table that already had an entry with another id
C10_Witness ==
    /\ last.op = "add"
    /\ Len(family) >= 2
    /\ family[1] = last.arg
    /\ family[2].id # family[1].id

(***************************************************************************)
(* Properties of the stream written by send_state (checked under           *)
(* SpecCodec).                                                             *)
(***************************************************************************)
Sent == pc \in {"sent", "received"}

\* the lines of a stream: the pieces before each newline, and what follows the last
StreamLines(s) == Split(s, NL)

Tok(lines, k) ==
    IF k \in DOMAIN lines /\ Len(lines[k]) >= 3 THEN SubSeq(lines[k], 1, 3) ELSE <<>>

Val(lines, k) ==
    IF k \in DOMAIN lines /\ Len(lines[k]) >= 4 THEN SubSeq(lines[k], 4, Len(lines[k])) ELSE <<>>

GlobalNames == { <<"V","E","R">>, <<"-","R","L">>, <<"-","T","L">>, <<"-","P","L">>,
                 <<"-","S","I">>, <<"-","W","R">>, <<"-","W","U">>, <<"-","S","T">>,
                 <<"-","D","B">>, <<"-","L","W">>, <<"-","L","U">> }

\* number of lines from k on that carry the flag token, up to the first that does not
RECURSIVE FlagRun(_, _)
FlagRun(lines, k) ==
    IF Tok(lines, k) = <<"F","L"," ">> THEN 1 + FlagRun(lines, k + 1) ELSE 0

\* number of leading lines that carry the token of a global
RECURSIVE GlobalRun(_, _)
GlobalRun(lines, k) ==
    IF Tok(lines, k) \in GlobalNames THEN 1 + GlobalRun(lines, k + 1) ELSE 0

\* line index of the REC line of each record, in stream order
RecStarts(lines) ==
    LET idx == {k \in DOMAIN lines : Tok(lines, k) = <<"R","E","C">>}
        Rank(k) == Cardinality({j \in idx : j <= k})
    IN [r \in 1..Cardinality(idx) |-> CHOOSE k \in idx : Rank(k) = r]

\* the record of entry i starts at line k and the records of the entries after
\* it, then END, take up the rest of the stream
RECURSIVE RecordsFrom(_, _, _, _)
RecordsFrom(lines, k, fam, i) ==
    IF i > Len(fam)
    THEN /\ k + 1 = Len(lines)
         /\ lines[k] = <<"E","N","D">>
         /\ lines[k + 1] = <<>>
    ELSE LET n == FlagRun(lines, k + 2) IN
         /\ Tok(lines, k) = <<"R","E","C">>
         /\ Val(lines, k) = fam[i].id
         /\ Tok(lines, k + 1) = <<"L","E","V">>
         /\ Tok(lines, k + 2 + n) = <<"P","I","D">>
         /\ Tok(lines, k + 3 + n) = <<"E","X","S">>
         /\ Tok(lines, k + 4 + n) = <<"A","C"," ">>
         /\ Tok(lines, k + 5 + n) = <<"C","M","D">>
         /\ k + 6 + n \in DOMAIN lines
         /\ lines[k + 6 + n] = <<"E","O","R">>
         /\ RecordsFrom(lines, k + 7 + n, fam, i + 1)

\* C2: decoding the stream that send_state wrote gives a table with the same
\* entries: same id, runlevels, action, pid, exit status and the same flag set.
C2_TableRoundTrip ==
    pc = "received" =>
        LET d == last.arg.family IN
        /\ Len(d) = Len(family)
        /\ \A i \in DOMAIN family :
              /\ i \in DOMAIN d
              /\ d[i].id = family[i].id
              /\ d[i].rlevel = family[i].rlevel
              /\ d[i].action = family[i].action
              /\ d[i].pid = family[i].pid
              /\ d[i].exstat = family[i].exstat
              /\ d[i].flags = family[i].flags

\* the flag lines of the record of entry i
FlagLinesOf(lines, i) ==
    LET k == RecStarts(lines)[i] IN
    [j \in 1..FlagRun(lines, k + 2) |-> Val(lines, k + 1 + j)]

\* C3: for every entry and every bit of ChildFlags, the record of the entry has
\* exactly one flag line for the bit if it is set and none if it is clear; so
\* the record has as many flag lines as the entry has bits set.
C3_OneFlagLinePerSetBit ==
    Sent =>
        LET lines == StreamLines(stream) IN
        /\ Len(RecStarts(lines)) = Len(family)
        /\ \A i \in DOMAIN family :
              LET fl == FlagLinesOf(lines, i) IN
              /\ Len(fl) = Cardinality(family[i].flags)
              /\ \A m \in DOMAIN FLAG_MAPPINGS :
                    Cardinality({j \in DOMAIN fl : fl[j] = FLAG_MAPPINGS[m].name})
                      = IF FLAG_MAPPINGS[m].mask \in family[i].flags THEN 1 ELSE 0

\* the tokens of the globals the stream has to carry
TrackedGlobalNames ==
    { <<"V","E","R">>, <<"-","R","L">>, <<"-","P","L">>, <<"-","S","I">>,
      <<"-","W","R">>, <<"-","W","U">>, <<"-","L","W">>, <<"-","L","U">>,
      <<"-","S","T">>, <<"-","D","B">> }

\* C4: the stream carries one line for every tracked global, and decoding it
\* restores each global to the value it had when it was encoded.
C4_GlobalsRoundTrip ==
    pc = "received" =>
        LET lines == StreamLines(stream) IN
        /\ \A t \in TrackedGlobalNames :
              Cardinality({k \in DOMAIN lines : Tok(lines, k) = t}) = 1
        /\ last.arg.version = VERSION
        /\ last.arg.globals = globals
        /\ last.arg.got_signals = GOT_SIGNALS

\* C5: the stream is the global lines, then one record per entry in table order,
\* each REC id, LEV, the flag lines, PID, EXS, AC, CMD, EOR in that order, then
\* one END line, which is the last line.
C5_StreamOrder ==
    Sent =>
        LET lines == StreamLines(stream)
            g == GlobalRun(lines, 1)
        IN /\ g >= 1
           /\ RecordsFrom(lines, g + 1, family, 1)

\* a stream of two records with different ids, one with several flag lines
C5_Witness ==
    /\ pc = "sent"
    /\ Len(family) = 2
    /\ family[1].id # family[2].id
    /\ family[1].flags = ChildFlags
    /\ family[2].flags = {}
    /\ Len(stream) > 0

(***************************************************************************)
(* Properties of the readers (checked under SpecReader).                   *)
(***************************************************************************)
TokenNames == {STATE_COMMANDS[k].name : k \in DOMAIN STATE_COMMANDS}

\* C6: reading a line whose 3-character token is not in the token table is not
\* reported as end-of-stream (so that the line can be skipped and the lines
\* after it decoded).
C6_UnknownTokenIsNotEof ==
    ( /\ Reading
      /\ last.op = "get_cmd"
      /\ LineStart(stream, last.from)
      /\ last.from + 3 <= Len(stream)
      /\ SubSeq(stream, last.from + 1, last.from + 3) \notin TokenNames )
    => last.res.val # "Eof"

Remaining(s, p) == SubSeq(s, p + 1, Len(s))

IsPrefix(a, b) == Len(a) <= Len(b) /\ SubSeq(b, 1, Len(a)) = a

\* C7: on a stream cut off at any byte, get_cmd, get_string and get_void return
\* no error: the end of the stream is the Eof token, the string read so far, or
\* false; the reader never passes the end, and the decoder stops.
C7_CutStreamIsNotAnError ==
    (pc = "cut" /\ last.op \in {"get_cmd", "get_string", "get_void"}) =>
        /\ last.res.err = FALSE
        /\ last.from <= last.res.pos
        /\ last.res.pos <= Len(stream)
        /\ (last.op = "get_cmd" /\ Len(stream) - last.from < 3) => last.res.val = "Eof"
        /\ (last.op = "get_void" /\ \A k \in (last.from + 1)..Len(stream) : stream[k] # NL)
              => (last.res.val = FALSE /\ last.res.pos = Len(stream))
        /\ last.op = "get_string" =>
              /\ IsPrefix(last.res.val, Remaining(stream, last.from))
              /\ \A k \in DOMAIN last.res.val : last.res.val[k] # NL
        /\ receive_state(stream, clock).pos <= Len(stream)

\* get_string met the end of a cut stream inside a value and returned the part read
C7_Witness ==
    /\ pc = "cut"
    /\ last.op = "get_string"
    /\ last.res.pos = Len(stream)
    /\ last.from < Len(stream)
    /\ stream[Len(stream)] # NL
    /\ Len(last.res.val) > 0
    /\ Len(last.res.val) < last.max_size

(***************************************************************************)
(* from_inittab_line on generated lines (SpecInittab).                     *)
(***************************************************************************)
Rep(c, n) == [i \in 1..n |-> c]

Join4(a, b, c, d) == a \o <<":">> \o b \o <<":">> \o c \o <<":">> \o d

\* fields at, just under and just over each limit; commands with any character
CandidateLines ==
    { Join4(i, r, a, c) :
        i \in { <<>>, <<"c", "o">>, Rep("i", INITTAB_ID), Rep("i", INITTAB_ID + 1) },
        r \in { <<>>, <<"2", "3", "4", "5">>, Rep("3", RUNLEVEL_LENGTH),
                Rep("3", RUNLEVEL_LENGTH + 1) },
        a \in { kw_respawn, <<"O", "n", "c", "e">>, <<"n", "o", "p", "e">>, <<>> },
        c \in { <<>>,
                <<"/","s","b","i","n","/","a","g","e","t","t","y"," ","t","t","y","1">>,
                <<"/","b","i","n","/","d","a","t","e"," ","+","%","H",":","%","M">>,
                Rep("x", PROCESS_LENGTH), Rep("x", PROCESS_LENGTH + 1) } }
    \cup { <<>>, <<"#", " ", "t", "t", "y">>,
           <<"c", "o", ":", "2", ":", "r", "e", "s", "p", "a", "w", "n">> }

InittabInit ==
    /\ family = <<>>
    /\ globals = InitState_new
    /\ GOT_SIGNALS = FALSE
    /\ clock = 0
    /\ stream = <<>>
    /\ pos = 0
    /\ pc = "parse"
    /\ last = [op |-> "new", arg |-> 0, found |-> FALSE]
    /\ input \in CandidateLines
    /\ GOT_CONT = FALSE
    /\ loop = LoopStart
    /\ bootlogd = BootlogdStart

ParseLine ==
    /\ pc = "parse"
    /\ pc' = "parsed"
    /\ last' = [op |-> "from_inittab_line", arg |-> input,
                res |-> from_inittab_line(input, clock)]
    /\ UNCHANGED <<bootlogd, input, GOT_CONT, loop, family, globals, GOT_SIGNALS, clock, stream, pos>>

InittabNext == ParseLine

SpecInittab == InittabInit /\ [][InittabNext]_vars

\* position of the n-th colon of a line, 0 if it has fewer
ColonAt(line, n) ==
    LET cs == {i \in DOMAIN line : line[i] = ":"}
    IN IF Cardinality(cs) < n THEN 0
       ELSE CHOOSE k \in cs : Cardinality({j \in cs : j <= k}) = n

\* the four fields of id:runlevels:action:process, the process being all that
\* follows the third colon
FieldsOf(line) ==
    LET c1 == ColonAt(line, 1)
        c2 == ColonAt(line, 2)
        c3 == ColonAt(line, 3)
    IN [id |-> SubSeq(line, 1, c1 - 1), rlevel |-> SubSeq(line, c1 + 1, c2 - 1),
        action |-> SubSeq(line, c2 + 1, c3 - 1), process |-> SubSeq(line, c3 + 1, Len(line))]

Keywords == { kw_respawn, kw_wait, kw_once, kw_boot, kw_bootwait, kw_powerfail,
              kw_powerwait, kw_powerokwait, kw_ctrlaltdel, kw_off, kw_ondemand,
              kw_initdefault, kw_sysinit, kw_powerfailnow, kw_kbrequest }

WellFormedLine(line) ==
    /\ ColonAt(line, 3) # 0
    /\ Len(FieldsOf(line).id) <= 8
    /\ Len(FieldsOf(line).rlevel) <= 12
    /\ to_lowercase(FieldsOf(line).action) \in Keywords
    /\ Len(FieldsOf(line).process) <= 512

\* C11: from_inittab_line returns an entry exactly for the lines
\* id:runlevels:action:process with id of at most 8 characters, runlevels of at
\* most 12, an action keyword and a command of at most 512 bytes, whatever
\* characters the command holds; the entry carries the four fields, empty flags
\* and no pid; every other line gives no entry.
C11_EntryExactlyForWellFormedLines ==
    pc = "parsed" =>
        /\ (last.res # None) <=> WellFormedLine(input)
        /\ last.res # None =>
              /\ last.res.id = FieldsOf(input).id
              /\ last.res.rlevel = FieldsOf(input).rlevel
              /\ to_lowercase(action_name(last.res.action)) = to_lowercase(FieldsOf(input).action)
              /\ last.res.process = FieldsOf(input).process
              /\ last.res.flags = {}
              /\ last.res.pid = NO_PROCESS

(***************************************************************************)
(* is_valid_runlevel and normalize_runlevel on single characters           *)
(* (SpecRunlevel).                                                         *)
(***************************************************************************)
\* the valid pattern accepts upper case only
is_valid_runlevel_upper_only(c) ==
    c \in {"0", "1", "2", "3", "4", "5", "6", "S", "A", "B", "C"}

\* matches!(c, '0'..='6' | 'S' | 's' | 'A'..='C' | 'a'..='c')
is_valid_runlevel(c) ==
    \/ c \in {"0", "1", "2", "3", "4", "5", "6"}
    \/ c = "S"
    \/ c = "s"
    \/ c \in {"A", "B", "C"}
    \/ c \in {"a", "b", "c"}

normalize_runlevel(c) ==
    CASE c = "s" -> "S"
      [] c = "a" -> "A"
      [] c = "b" -> "B"
      [] c = "c" -> "C"
      [] OTHER -> c

\* target characters: every digit and letter, and some that are neither
RunlevelChars ==
    {Digits[i] : i \in DOMAIN Digits}
    \cup {UpperLetters[i] : i \in DOMAIN UpperLetters}
    \cup {LowerLetters[i] : i \in DOMAIN LowerLetters}
    \cup {" ", "-", "/", ":", "~", NL}

RunlevelInit ==
    /\ family = <<>>
    /\ globals = InitState_new
    /\ GOT_SIGNALS = FALSE
    /\ clock = 0
    /\ stream = <<>>
    /\ pos = 0
    /\ pc = "check"
    /\ last = [op |-> "new", arg |-> 0, found |-> FALSE]
    /\ input \in {<<c>> : c \in RunlevelChars}
    /\ GOT_CONT = FALSE
    /\ loop = LoopStart
    /\ bootlogd = BootlogdStart

\* a target character is validated
CheckRunlevel ==
    /\ pc = "check"
    /\ pc' = "checked"
    /\ last' = [op |-> "is_valid_runlevel", arg |-> input[1],
                res |-> is_valid_runlevel(input[1])]
    /\ UNCHANGED <<bootlogd, input, GOT_CONT, loop, family, globals, GOT_SIGNALS, clock, stream, pos>>

\* an accepted target is normalised
NormalizeRunlevel ==
    /\ pc = "checked"
    /\ last.res = TRUE
    /\ pc' = "normalized"
    /\ last' = [op |-> "normalize_runlevel", arg |-> input[1],
                res |-> normalize_runlevel(input[1])]
    /\ UNCHANGED <<bootlogd, input, GOT_CONT, loop, family, globals, GOT_SIGNALS, clock, stream, pos>>

RunlevelNext == CheckRunlevel \/ NormalizeRunlevel

SpecRunlevel == RunlevelInit /\ [][RunlevelNext]_vars

AllowedRunlevels == {"0", "1", "2", "3", "4", "5", "6", "S", "A", "B", "C"}

\* C12 as stated: a runlevel target is valid only if it is one of 0-6, S or
\* A, B, C; every other character is rejected.
C12_OnlyUpperCaseTargetsAreValid ==
    pc = "checked" => (last.res <=> input[1] \in AllowedRunlevels)

\* C12: a runlevel target is valid exactly if it is one of 0-6, S, A, B, C or
\* one of the lower-case s, a, b, c; every other character is rejected, and an
\* accepted target normalises to one of 0-6, S, A, B, C.
C12_ValidIffNormalizesIntoAllowedSet ==
    /\ pc = "checked" =>
          (last.res <=> input[1] \in AllowedRunlevels \cup {"s", "a", "b", "c"})
    /\ pc = "normalized" =>
          /\ last.res \in AllowedRunlevels
          /\ to_lowercase_char(last.res) = to_lowercase_char(input[1])

\* a lower-case target was accepted and normalised to upper case
C12_Witness ==
    pc = "normalized" /\ input = <<"s">> /\ last.res = "S"

(***************************************************************************)
(* The synthesized entries.                                                *)
(***************************************************************************)
ReservedId == create_emergency_shell(0).id

\* C13: the emergency shell entry has the fixed reserved id, action Once,
\* runlevel S alone and no pid, and the id is reserved to it: every entry added
\* under that id is the emergency shell, no other synthesized entry carries it.
C13_ReservedIdIsTheEmergencyShellOnly ==
    (last.op = "add" /\ last.arg.id = ReservedId) =>
        /\ last.arg.action = "Once"
        /\ last.arg.rlevel = <<"S">>
        /\ last.arg.pid = NO_PROCESS
        /\ last.arg.process = create_emergency_shell(0).process

(***************************************************************************)
(* The signal flags and the main loop that polls them (SpecSignals).       *)
(* The signal path runs set_got_cont and set_got_signals at any moment;    *)
(* the loop takes each flag in turn: got_*, then clear_* if the flag was   *)
(* set, then the dispatch.  loop.unobserved names the flags stored to      *)
(* since the loop last loaded them as set.                                 *)
(***************************************************************************)
MaxSignals == 3

SignalsInit ==
    /\ family = <<>>
    /\ globals = InitState_new
    /\ GOT_SIGNALS = FALSE
    /\ GOT_CONT = FALSE
    /\ clock = 0
    /\ stream = <<>>
    /\ pos = 0
    /\ pc = "loop"
    /\ last = [op |-> "new", arg |-> 0, found |-> FALSE]
    /\ input = <<>>
    /\ loop = LoopStart
    /\ bootlogd = BootlogdStart

SignalsFrame == UNCHANGED <<family, globals, clock, stream, pos, pc, input, bootlogd>>

\* set_got_cont, from the signal path
SetGotCont ==
    /\ loop.delivered < MaxSignals
    /\ GOT_CONT' = TRUE
    /\ loop' = [loop EXCEPT !.unobserved = @ \cup {"GOT_CONT"}, !.delivered = @ + 1]
    /\ last' = [op |-> "set_got_cont", arg |-> 0, found |-> TRUE]
    /\ UNCHANGED GOT_SIGNALS
    /\ SignalsFrame

\* set_got_signals, from the signal path
SetGotSignals ==
    /\ loop.delivered < MaxSignals
    /\ GOT_SIGNALS' = TRUE
    /\ loop' = [loop EXCEPT !.unobserved = @ \cup {"GOT_SIGNALS"}, !.delivered = @ + 1]
    /\ last' = [op |-> "set_got_signals", arg |-> 0, found |-> TRUE]
    /\ UNCHANGED GOT_CONT
    /\ SignalsFrame

\* the flag the loop turns to after f
NextFlag(f) == IF f = "GOT_CONT" THEN "GOT_SIGNALS" ELSE "GOT_CONT"

\* the loop after loading flag f and finding it set or not
Polled(f, set) ==
    IF set
    THEN [loop EXCEPT !.pc = "clear", !.unobserved = @ \ {f}]
    ELSE [loop EXCEPT !.flag = NextFlag(f)]

\* got_cont, from the main loop
GotCont ==
    /\ loop.pc = "poll" /\ loop.flag = "GOT_CONT"
    /\ loop' = Polled("GOT_CONT", GOT_CONT)
    /\ last' = [op |-> "got_cont", arg |-> 0, found |-> GOT_CONT]
    /\ UNCHANGED <<GOT_CONT, GOT_SIGNALS>>
    /\ SignalsFrame

\* got_signals, from the main loop
GotSignals ==
    /\ loop.pc = "poll" /\ loop.flag = "GOT_SIGNALS"
    /\ loop' = Polled("GOT_SIGNALS", GOT_SIGNALS)
    /\ last' = [op |-> "got_signals", arg |-> 0, found |-> GOT_SIGNALS]
    /\ UNCHANGED <<GOT_CONT, GOT_SIGNALS>>
    /\ SignalsFrame

\* clear_got_cont, from the main loop
ClearGotCont ==
    /\ loop.pc = "clear" /\ loop.flag = "GOT_CONT"
    /\ GOT_CONT' = FALSE
    /\ loop' = [loop EXCEPT !.pc = "dispatch"]
    /\ last' = [op |-> "clear_got_cont", arg |-> 0, found |-> TRUE]
    /\ UNCHANGED GOT_SIGNALS
    /\ SignalsFrame

\* clear_got_signals, from the main loop
ClearGotSignals ==
    /\ loop.pc = "clear" /\ loop.flag = "GOT_SIGNALS"
    /\ GOT_SIGNALS' = FALSE
    /\ loop' = [loop EXCEPT !.pc = "dispatch"]
    /\ last' = [op |-> "clear_got_signals", arg |-> 0, found |-> TRUE]
    /\ UNCHANGED GOT_CONT
    /\ SignalsFrame

\* the loop acts on the flag it found set and turns to the next flag
Dispatch ==
    /\ loop.pc = "dispatch"
    /\ loop' = [loop EXCEPT !.pc = "poll", !.flag = NextFlag(@), !.dispatched = @ + 1]
    /\ last' = [op |-> "dispatch", arg |-> 0, found |-> TRUE]
    /\ UNCHANGED <<GOT_CONT, GOT_SIGNALS>>
    /\ SignalsFrame

SignalsNext ==
    \/ SetGotCont
    \/ SetGotSignals
    \/ GotCont
    \/ GotSignals
    \/ ClearGotCont
    \/ ClearGotSignals
    \/ Dispatch

SpecSignals == SignalsInit /\ [][SignalsNext]_vars

FlagValue(f) == IF f = "GOT_CONT" THEN GOT_CONT ELSE GOT_SIGNALS

\* C14: under any interleaving of set_got_signals and set_got_cont with the
\* main loop's got_* and clear_* steps no signal is lost: a flag that was set
\* and that no poll has yet found set is still set, so that a later poll finds
\* it and dispatches.
C14_NoSetIsErasedUnobserved ==
    \A f \in loop.unobserved : FlagValue(f) = TRUE

(***************************************************************************)
(* Supervision: load, hot-reload, spawn, exit and reap (SpecSupervise).    *)
(* The table operations are the code's; the steps that drive them are the  *)
(* ProcessTable and RunlevelController of the design.                      *)
(***************************************************************************)
\* pids the system hands out: two processes can be alive at once
LivePids == 1..(MaxPid + 1)

\* the definitions an inittab re-read can bring: the old line, a changed one,
\* or none
ReloadLines ==
    { <<"a", ":", "2", "3", ":", "r", "e", "s", "p", "a", "w", "n", ":", "/", "x">>,
      <<"a", ":", "3", ":", "r", "e", "s", "p", "a", "w", "n", ":", "/", "y">> }

SuperviseInit ==
    /\ family = <<>>
    /\ globals = InitState_new
    /\ GOT_SIGNALS = FALSE
    /\ clock = 0
    /\ stream = <<>>
    /\ pos = 0
    /\ pc = "supervise"
    /\ last = [op |-> "new", arg |-> 0, found |-> FALSE]
    /\ Idle

\* an entry enters the table through add_child: an inittab line at boot, the
\* emergency shell, the poweroff entry
Load ==
    \E c \in { from_inittab_line(l, 0) : l \in ReloadLines }
             \cup { create_emergency_shell(0), create_poweroff_child(0) } :
        /\ Len(family) < MaxChildren
        /\ family' = add_child(family, c)
        /\ last' = [op |-> "load", arg |-> 0, found |-> TRUE]
        /\ TableFrame

\* diff_reload: an entry whose id is among the new definitions gets the new
\* definition staged as its shadow, an entry whose id is absent is marked
\* KILLME, a definition with a new id enters the table with empty flags
diff_reload(fam, defs) ==
    LET staged == [i \in DOMAIN fam |->
                     IF \E d \in defs : d.id = fam[i].id
                     THEN [fam[i] EXCEPT !.new = CHOOSE d \in defs : d.id = fam[i].id]
                     ELSE [fam[i] EXCEPT !.flags = @ \cup {"KILLME"}]]
        fresh == {d \in defs : \A i \in DOMAIN fam : fam[i].id # d.id}
    IN IF fresh = {} THEN staged ELSE add_child(staged, CHOOSE d \in fresh : TRUE)

Reload ==
    \E defs \in { {from_inittab_line(l, 0)} : l \in ReloadLines } \cup { {} } :
        /\ Len(diff_reload(family, defs)) <= MaxChildren
        /\ family' = diff_reload(family, defs)
        /\ last' = [op |-> "reload", arg |-> 0, found |-> TRUE]
        /\ TableFrame

\* the entry as it is spawned: a staged shadow becomes the live definition
promote(c) ==
    IF c.new = None THEN c
    ELSE [c EXCEPT !.rlevel = c.new.rlevel, !.action = c.new.action,
                   !.process = c.new.process, !.new = None]

\* spawn: an entry without a process gets the pid of a new one
StartChild ==
    \E i \in DOMAIN family, pid \in LivePids :
        /\ family[i].pid = NO_PROCESS
        /\ "KILLME" \notin family[i].flags
        /\ \A j \in DOMAIN family : family[j].pid # pid
        /\ family' = [family EXCEPT ![i] = mark_running([promote(@) EXCEPT !.pid = pid])]
        /\ last' = [op |-> "spawn", arg |-> 0, found |-> TRUE]
        /\ TableFrame

\* the process of a running entry exits
ChildExit ==
    \E i \in DOMAIN family :
        /\ is_running(family[i])
        /\ family' = [family EXCEPT ![i] = mark_zombie(@)]
        /\ last' = [op |-> "exit", arg |-> 0, found |-> TRUE]
        /\ TableFrame

\* reap: the exited process is collected; an entry marked KILLME leaves the
\* table through remove_child_by_pid, any other gives up its pid
Reap ==
    \E i \in DOMAIN family :
        /\ "ZOMBIE" \in family[i].flags
        /\ family[i].pid # NO_PROCESS
        /\ family' = IF "KILLME" \in family[i].flags
                     THEN remove_child_by_pid(family, family[i].pid).family
                     ELSE [family EXCEPT ![i] = [@ EXCEPT !.pid = NO_PROCESS,
                                                          !.flags = @ \ {"ZOMBIE"}]]
        /\ last' = [op |-> "reap", arg |-> 0, found |-> TRUE]
        /\ TableFrame

SuperviseNext ==
    \/ Load
    \/ Reload
    \/ StartChild
    \/ ChildExit
    \/ Reap

SpecSupervise == SuperviseInit /\ [][SuperviseNext]_vars

\* C15: for any sequence of hot-reloads, spawns and reaps no id has two live
\* pids at once: the entries of one id hold at most one process between them,
\* and a staged shadow definition holds no pid of its own.
C15_NoIdHasTwoLivePids ==
    /\ \A i, j \in DOMAIN family :
          (i # j /\ family[i].id = family[j].id) =>
              (family[i].pid = NO_PROCESS \/ family[j].pid = NO_PROCESS)
    /\ \A i \in DOMAIN family :
          family[i].new # None => family[i].new.pid = NO_PROCESS

(***************************************************************************)
(* The respawn failsafe (SpecFailsafe): one Respawn entry that exits and   *)
(* is put up for respawn again and again while time passes.  The limits    *)
(* are the code's; the accounting on tm and count is the FailsafeMonitor   *)
(* of the design.                                                          *)
(***************************************************************************)
\* the threshold one higher
MaxSpawnRaised == 10 + 1

MAXSPAWN == 10

TESTTIME == 120

SLEEPTIME == 300

\* time passes in steps of Tick seconds up to MaxClock
Tick == 50

MaxClock == 400

\* Child::is_failing
is_failing(c) == "FAILING" \in c.flags

RespawnLine ==
    <<"c","o",":","2","3","4","5",":","r","e","s","p","a","w","n",":",
      "/","s","b","i","n","/","a","g","e","t","t","y"," ","t","t","y","1">>

\* the entry after the failsafe has looked at it at time now, and whether it
\* may be spawned: a FAILING entry is left alone until SLEEPTIME has passed
\* since it failed and then cleared; a candidate within TESTTIME of tm counts
\* up, a later one starts a new window; more than MAXSPAWN in a window is FAILING
failsafe_check(c, now) ==
    IF is_failing(c) /\ now - c.tm < SLEEPTIME THEN [child |-> c, spawn |-> FALSE]
    ELSE LET cleared == [c EXCEPT !.flags = @ \ {"FAILING"}]
             counted == IF now - cleared.tm < TESTTIME
                        THEN [cleared EXCEPT !.count = @ + 1]
                        ELSE [cleared EXCEPT !.count = 1, !.tm = now]
         IN IF counted.count > MAXSPAWN
            THEN [child |-> [counted EXCEPT !.flags = @ \cup {"FAILING"}, !.tm = now],
                  spawn |-> FALSE]
            ELSE [child |-> counted, spawn |-> TRUE]

\* what the run has seen, kept beside the entry: the candidates at this
\* instant and in the Tick before it; the candidates since the window opened
\* (when the entry was made, or at the first candidate 120 s or more after the
\* window before); whether the entry is held back, since when (-1: never), and
\* whether this candidate ended a cooldown
FailsafeStart ==
    [op |-> "new", found |-> FALSE, at_now |-> 0, at_prev |-> 0,
     start |-> 0, n |-> 0, failing |-> FALSE, failed_at |-> -1, cooled |-> FALSE]

FailsafeInit ==
    /\ family = <<from_inittab_line(RespawnLine, 0)>>
    /\ globals = InitState_new
    /\ GOT_SIGNALS = FALSE
    /\ clock = 0
    /\ stream = <<>>
    /\ pos = 0
    /\ pc = "failsafe"
    /\ last = FailsafeStart
    /\ Idle

FailsafeFrame == UNCHANGED <<bootlogd, input, GOT_CONT, loop, globals, GOT_SIGNALS, stream, pos, pc>>

\* time passes
TimePasses ==
    /\ clock + Tick <= MaxClock
    /\ clock' = clock + Tick
    /\ last' = [last EXCEPT !.op = "tick", !.found = FALSE, !.cooled = FALSE,
                            !.at_now = 0, !.at_prev = last.at_now]
    /\ UNCHANGED family
    /\ FailsafeFrame

\* the entry's process exits and is reaped
ProcessExits ==
    /\ is_running(family[1])
    /\ family' = [family EXCEPT ![1] = [@ EXCEPT !.flags = @ \ {"RUNNING"},
                                                 !.pid = NO_PROCESS]]
    /\ last' = [last EXCEPT !.op = "exit", !.found = FALSE, !.cooled = FALSE]
    /\ UNCHANGED clock
    /\ FailsafeFrame

\* the entry, not running, is a candidate for respawn
CandidateRespawn ==
    LET r == failsafe_check(family[1], clock)
        waiting == last.failing /\ clock - last.failed_at < 300
        opens == clock - last.start >= 120 \/ last.failing
        n == IF opens THEN 1 ELSE last.n + 1
    IN /\ ~is_running(family[1])
       /\ family' = [family EXCEPT ![1] =
                       IF r.spawn THEN mark_running([r.child EXCEPT !.pid = 1])
                       ELSE r.child]
       /\ last' = IF waiting
                  THEN [last EXCEPT !.op = "respawn", !.found = FALSE, !.cooled = FALSE]
                  ELSE [op |-> "respawn", found |-> r.spawn,
                        at_now |-> last.at_now + 1, at_prev |-> last.at_prev,
                        start |-> IF opens THEN clock ELSE last.start,
                        n |-> n,
                        failing |-> n >= 11,
                        failed_at |-> IF n >= 11 THEN clock ELSE last.failed_at,
                        cooled |-> last.failing]
       /\ UNCHANGED clock
       /\ FailsafeFrame

FailsafeNext ==
    \/ TimePasses
    \/ ProcessExits
    \/ CandidateRespawn

SpecFailsafe == FailsafeInit /\ [][FailsafeNext]_vars

\* no spawn while the entry is held back; the first candidate 300 s or more
\* after the failure is spawned, FAILING cleared
CooldownHolds ==
    /\ last.failing => ~is_running(family[1])
    /\ is_running(family[1]) => ~is_failing(family[1])
    /\ last.cooled =>
          /\ clock >= last.failed_at + 300
          /\ last.found
          /\ is_running(family[1])
          /\ ~is_failing(family[1])

should_run_at_any_level(c, level) == TRUE

\* Child::should_run_at_level: rlevel.contains(level)
should_run_at_level(c, level) == \E k \in DOMAIN c.rlevel : c.rlevel[k] = level

\* the entries a table at runlevel 2 can hold: a definition, its flags, and
\* the pid of its process when it runs
EntryAt(id, pid, rl, a, fl) ==
    [from_inittab_line(Join4(id, rl, action_name(a), <<"/", "x">>), 0)
        EXCEPT !.flags = fl, !.pid = IF "RUNNING" \in fl THEN pid ELSE NO_PROCESS]

EntriesAt(id, pid) ==
    { EntryAt(id, pid, rl, a, fl) :
        rl \in { <<"2">>, <<"3">>, <<"2", "3">> },
        a \in { "Respawn", "Once", "Off", "OnDemand", "Boot" },
        fl \in SUBSET {"RUNNING", "XECUTED", "FAILING"} }

TransitionTargets == { <<"3">>, <<"2">>, <<"7">> }

TransitionInit ==
    /\ family \in { <<a, b>> : a \in EntriesAt(<<"a">>, 1), b \in EntriesAt(<<"b">>, 2) }
    /\ globals = [InitState_new EXCEPT !.curlevel = "2", !.prevlevel = "S", !.did_boot = TRUE]
    /\ GOT_SIGNALS = FALSE
    /\ clock = 0
    /\ stream = <<>>
    /\ pos = 0
    /\ pc = "level"
    /\ last = [op |-> "new", arg |-> 0, found |-> FALSE]
    /\ input \in TransitionTargets
    /\ GOT_CONT = FALSE
    /\ loop = LoopStart
    /\ bootlogd = BootlogdStart

\* the actions whose processes the stop pass terminates
StopClass == {"Respawn", "Wait", "Once", "Boot", "BootWait"}

\* stop pass: every running entry of a stop-class action whose runlevels
\* exclude the target is terminated, reaped and removed
RECURSIVE stop_pass(_, _)
stop_pass(fam, target) ==
    LET i == FirstIndex({k \in DOMAIN fam :
                           /\ fam[k].action \in StopClass
                           /\ ~should_run_at_level(fam[k], target)
                           /\ is_running(fam[k])})
    IN IF i = 0 THEN fam
       ELSE stop_pass(remove_child_by_pid(fam, fam[i].pid).family, target)

\* a pid no entry of the table holds
FreshPid(fam) == CHOOSE p \in 1..(Len(fam) + 1) : \A k \in DOMAIN fam : fam[k].pid # p

\* an entry of the start pass: spawned per its action, or skipped
start_entry(fam, c, g) ==
    CASE c.action = "Respawn" /\ ~is_failing(c) ->
            mark_running([c EXCEPT !.pid = FreshPid(fam)])
      [] c.action = "Once" /\ "XECUTED" \notin c.flags ->
            mark_executed(mark_running([c EXCEPT !.pid = FreshPid(fam)]))
      [] c.action \in {"Boot", "BootWait", "SysInit"} /\ ~g.did_boot ->
            mark_executed(mark_running([c EXCEPT !.pid = FreshPid(fam)]))
      [] OTHER -> c

\* start pass, in table order from entry i on
RECURSIVE start_pass(_, _, _, _)
start_pass(fam, i, target, g) ==
    IF i > Len(fam) THEN fam
    ELSE IF should_run_at_level(fam[i], target) /\ ~is_running(fam[i])
         THEN start_pass([fam EXCEPT ![i] = start_entry(fam, fam[i], g)], i + 1, target, g)
         ELSE start_pass(fam, i + 1, target, g)

\* transition(target): the table and the levels when the pass has completed
transition(fam, g, target) ==
    IF ~is_valid_runlevel(target) \/ normalize_runlevel(target) = g.curlevel
    THEN [family |-> fam, globals |-> g, done |-> FALSE]
    ELSE [family |-> start_pass(stop_pass(fam, target), 1, target, g),
          globals |-> IF normalize_runlevel(target) \in {"A", "B", "C"} THEN g
                      ELSE [g EXCEPT !.prevlevel = g.curlevel,
                                     !.curlevel = normalize_runlevel(target)],
          done |-> TRUE]

Transition ==
    /\ pc = "level"
    /\ pc' = "passed"
    /\ family' = transition(family, globals, input[1]).family
    /\ globals' = transition(family, globals, input[1]).globals
    /\ last' = [op |-> "transition", arg |-> 0,
                found |-> transition(family, globals, input[1]).done]
    /\ UNCHANGED <<bootlogd, input, GOT_CONT, loop, GOT_SIGNALS, clock, stream, pos>>

TransitionNext == Transition

SpecTransition == TransitionInit /\ [][TransitionNext]_vars

Has3(c) == \E k \in DOMAIN c.rlevel : c.rlevel[k] = "3"

Runs(c) == "RUNNING" \in c.flags /\ c.pid # NO_PROCESS

\* the entry of table fam with the id of c is there and runs
RunsIn(fam, c) == \E j \in DOMAIN fam : fam[j].id = c.id /\ Runs(fam[j])

\* the start pass has something to do for the entry
Eligible(c) ==
    \/ c.action = "Respawn" /\ "FAILING" \notin c.flags
    \/ c.action = "Once" /\ "XECUTED" \notin c.flags

From2To3 ==
    /\ globals.curlevel = "2"
    /\ globals'.curlevel = "3"
    /\ last'.op = "transition"

Without(fam, i) == [k \in 1..(Len(fam) - 1) |-> IF k < i THEN fam[k] ELSE fam[k + 1]]

\* the step is remove_child_by_pid(pid) on a table where some entry has pid
RemovesHeld(pid) ==
    /\ last'.op = "remove"
    /\ last'.arg = pid
    /\ \E i \in DOMAIN family : family[i].pid = pid

\* C18: remove_child_by_pid with a pid that some entry holds removes exactly
\* one entry, the first in table order whose pid is the argument, returns that
\* entry, and leaves every other entry in its order with its fields unchanged.
C18_RemovesFirstMatchOnly ==
    [][\A pid \in Pids :
          RemovesHeld(pid) =>
              \E i \in DOMAIN family :
                  /\ family[i].pid = pid
                  /\ \A k \in 1..(i - 1) : family[k].pid # pid
                  /\ family' = Without(family, i)
                  /\ remove_child_by_pid(family, pid).removed = family[i]
                  /\ last'.found]_vars

\* an entry was removed by the pid of its process and the rest of the table
\* is still there
C18_Witness ==
    /\ last.op = "remove"
    /\ last.arg # NO_PROCESS
    /\ last.found
    /\ Len(family) = MaxChildren - 1
    /\ \A k \in DOMAIN family : family[k].pid # last.arg

(***************************************************************************)
(* The flag operations of an entry.                                        *)
(***************************************************************************)
\* C19: after any sequence of mark_running, mark_zombie and mark_executed on
\* an entry, the entry never has RUNNING and ZOMBIE set at the same time.
C19_NeverRunningAndZombie ==
    \A i \in DOMAIN family : ~({"RUNNING", "ZOMBIE"} \subseteq family[i].flags)

(***************************************************************************)
(* get_string and the line it reads.                                       *)
(***************************************************************************)
\* the newlines of stream s after position p
NewlinesAfter(s, p) == {k \in (p + 1)..Len(s) : s[k] = NL}

\* C20: get_string(reader, max_size) returns at most max_size bytes of the
\* line's value and, whenever the line's newline is in the stream, leaves the
\* reader at the first byte of the next line, the newline consumed, for every
\* value length including max_size bytes or more.
C20_GetStringEndsAtNextLine ==
    (last.op = "get_string" /\ NewlinesAfter(stream, last.from) # {}) =>
        LET nl == CHOOSE k \in NewlinesAfter(stream, last.from) :
                      \A j \in NewlinesAfter(stream, last.from) : k <= j
        IN /\ Len(last.res.val) <= last.max_size
           /\ IsPrefix(last.res.val, SubSeq(stream, last.from + 1, nl - 1))
           /\ last.res.pos = nl

(***************************************************************************)
(* bootlogd's ring buffer (SpecRing): a writer pushes console output, a    *)
(* reader takes the slice at out_idx and advances past what it has used.   *)
(* last.accepted is every byte push has taken so far, last.read every byte *)
(* the reader has advanced past.                                           *)
(***************************************************************************)
\* bytes pushed, lengths of one push and the bytes pushed in a run
RingBytes == {1, 2}

MaxPush == 5

MaxAccepted == 6

Min(a, b) == IF a <= b THEN a ELSE b

\* RingBuf::push: the buffer after the call and the count returned
push(r, data) ==
    LET space == IF r.in_idx >= r.out_idx
                 THEN RINGBUF_SIZE - r.in_idx
                 ELSE r.out_idx - r.in_idx
        to_write == Min(Len(data), space)
    IN IF to_write = 0 THEN [ring |-> r, written |-> 0]
       ELSE [ring |-> [r EXCEPT !.buf = [k \in 1..RINGBUF_SIZE |->
                                           IF k > r.in_idx /\ k <= r.in_idx + to_write
                                           THEN data[k - r.in_idx] ELSE r.buf[k]],
                                !.in_idx = (r.in_idx + to_write) % RINGBUF_SIZE],
             written |-> to_write]

\* RingBuf::get_slice
get_slice(r) ==
    IF r.out_idx <= r.in_idx
    THEN SubSeq(r.buf, r.out_idx + 1, r.in_idx)
    ELSE SubSeq(r.buf, r.out_idx + 1, RINGBUF_SIZE)

\* RingBuf::advance_out
advance_out(r, length) == [r EXCEPT !.out_idx = (r.out_idx + length) % RINGBUF_SIZE]

\* RingBuf::available
available(r) ==
    IF r.in_idx >= r.out_idx
    THEN r.in_idx - r.out_idx
    ELSE RINGBUF_SIZE - r.in_idx + r.out_idx

\* the byte sequences of length 0..n over RingBytes
DataUpTo(n) == UNION { [1..k -> RingBytes] : k \in 0..n }

RingInit ==
    /\ family = <<>>
    /\ globals = InitState_new
    /\ GOT_SIGNALS = FALSE
    /\ clock = 0
    /\ stream = <<>>
    /\ pos = 0
    /\ pc = "ring"
    /\ last = [op |-> "new", accepted |-> <<>>, read |-> <<>>, res |-> 0]
    /\ input = <<>>
    /\ GOT_CONT = FALSE
    /\ loop = LoopStart
    /\ bootlogd = BootlogdStart

RingFrame ==
    UNCHANGED <<family, globals, GOT_SIGNALS, clock, stream, pos, pc, input, GOT_CONT, loop>>

\* the writer pushes data and keeps what was not taken for later
Push ==
    \E data \in DataUpTo(MaxPush) :
        /\ Len(last.accepted) + Len(data) <= MaxAccepted
        /\ bootlogd' = [bootlogd EXCEPT !.ring = push(bootlogd.ring, data).ring]
        /\ last' = [op |-> "push",
                    accepted |-> last.accepted
                                 \o SubSeq(data, 1, push(bootlogd.ring, data).written),
                    read |-> last.read,
                    res |-> push(bootlogd.ring, data).written]
        /\ RingFrame

\* the reader looks at the slice
GetSlice ==
    /\ last' = [last EXCEPT !.op = "get_slice", !.res = Len(get_slice(bootlogd.ring))]
    /\ UNCHANGED bootlogd
    /\ RingFrame

\* the reader advances past the first length bytes of the slice
AdvanceOut ==
    \E length \in 0..Len(get_slice(bootlogd.ring)) :
        /\ bootlogd' = [bootlogd EXCEPT !.ring = advance_out(bootlogd.ring, length)]
        /\ last' = [op |-> "advance_out",
                    accepted |-> last.accepted,
                    read |-> last.read \o SubSeq(get_slice(bootlogd.ring), 1, length),
                    res |-> length]
        /\ RingFrame

RingNext ==
    \/ Push
    \/ GetSlice
    \/ AdvanceOut

SpecRing == RingInit /\ [][RingNext]_vars

\* the bytes accepted and not yet read
Unread == SubSeq(last.accepted, Len(last.read) + 1, Len(last.accepted))

\* C21: the ring buffer is a lossless FIFO: what the reader has read is, in
\* order, a prefix of what push accepted; once the reader finds the buffer
\* drained it has read all of it; and the bytes accepted and not yet read are
\* still there for the reader, the next slice being the first of them.
C21_LosslessFifo ==
    /\ Len(last.read) <= Len(last.accepted)
    /\ IsPrefix(last.read, last.accepted)
    /\ get_slice(bootlogd.ring) = <<>> => last.read = last.accepted
    /\ IsPrefix(get_slice(bootlogd.ring), Unread)

\* C22: in every state reached by push and by advance_out of at most the
\* slice length, available() is the number of bytes accepted by push and not
\* yet consumed by advance_out, is at most the buffer size, and is at least
\* the length of the slice get_slice returns.
C22_AvailableCountsUnread ==
    /\ available(bootlogd.ring) = Len(last.accepted) - Len(last.read)
    /\ available(bootlogd.ring) <= RINGBUF_SIZE
    /\ available(bootlogd.ring) >= Len(get_slice(bootlogd.ring))

(***************************************************************************)
(* write_log (SpecLog): console output is handed to write_log in pieces,   *)
(* all calls sharing first_run.  The log file fp is the sequence of what   *)
(* was written to it: bytes, and Timestamp for a timestamp prefix.         *)
(* last.fed is every byte handed over so far.                              *)
(***************************************************************************)
\* write!(fp, "{}: ", ts), or "?: " when the clock is before the epoch
Timestamp == 256

\* ESC, CR, LF, '[', '1', 'x'
LogBytes == {27, 13, 10, 91, 49, 120}

MaxChunk == 2

MaxFed == 4

\* one round of the while loop for data[i] and the rounds after it
RECURSIVE write_log_loop(_, _, _, _, _, _)
write_log_loop(fp, data, i, inside_esc, print_escape_characters, first_run) ==
    IF ~(i <= Len(data)) THEN [fp |-> fp, first_run |-> first_run]
    ELSE
      LET stamped == IF first_run THEN Append(fp, Timestamp) ELSE fp
          byte == data[i]
          esc == IF print_escape_characters
                   THEN [ignore |-> FALSE, inside_esc |-> inside_esc]
                 ELSE IF inside_esc = 1
                   THEN IF byte = 91 THEN [ignore |-> TRUE, inside_esc |-> 2]
                        ELSE [ignore |-> byte >= 64 /\ byte <= 95, inside_esc |-> 0]
                 ELSE IF inside_esc = 2
                   THEN IF (byte >= 48 /\ byte <= 57) \/ byte = 59 \/ (byte >= 32 /\ byte <= 47)
                          THEN [ignore |-> TRUE, inside_esc |-> 2]
                        ELSE IF byte >= 64 /\ byte <= 126
                          THEN [ignore |-> TRUE, inside_esc |-> 0]
                        ELSE [ignore |-> FALSE, inside_esc |-> 2]
                 ELSE IF byte = 13 THEN [ignore |-> TRUE, inside_esc |-> 0]
                 ELSE IF byte = 27 THEN [ignore |-> TRUE, inside_esc |-> 1]
                 ELSE [ignore |-> FALSE, inside_esc |-> 0]
          written == IF esc.ignore THEN stamped ELSE Append(stamped, byte)
      IN write_log_loop(written, data, i + 1, esc.inside_esc, print_escape_characters,
                        byte = 10)

\* write_log with first_run taken to be true at every call
write_log_fresh_first_run(fp, data, print_escape_characters, first_run) ==
    write_log_loop(fp, data, 1, 0, print_escape_characters, TRUE)

\* write_log: the file and first_run after the call
write_log(fp, data, print_escape_characters, first_run) ==
    write_log_loop(fp, data, 1, 0, print_escape_characters, first_run)

\* the pieces handed to one call
Chunks == UNION { [1..k -> LogBytes] : k \in 0..MaxChunk }

LogInit ==
    /\ family = <<>>
    /\ globals = InitState_new
    /\ GOT_SIGNALS = FALSE
    /\ clock = 0
    /\ stream = <<>>
    /\ pos = 0
    /\ pc = "log"
    /\ last = [op |-> "new", fed |-> <<>>, filtered |-> TRUE, split |-> FALSE]
    /\ input = <<>>
    /\ GOT_CONT = FALSE
    /\ loop = LoopStart
    /\ bootlogd = BootlogdStart

WriteLog ==
    \E data \in Chunks, print_escape_characters \in BOOLEAN :
        LET r == write_log(bootlogd.fp, data, print_escape_characters, bootlogd.first_run)
        IN /\ Len(last.fed) + Len(data) <= MaxFed
           /\ bootlogd' = [bootlogd EXCEPT !.fp = r.fp, !.first_run = r.first_run]
           /\ last' = [op |-> "write_log",
                       fed |-> last.fed \o data,
                       filtered |-> last.filtered /\ ~print_escape_characters,
                       split |-> last.split \/ (data # <<>> /\ ~bootlogd.first_run)]
           /\ UNCHANGED <<family, globals, GOT_SIGNALS, clock, stream, pos, pc, input,
                          GOT_CONT, loop>>

LogNext == WriteLog

SpecLog == LogInit /\ [][LogNext]_vars

\* C23: with escape filtering on in every call, write_log never writes an ESC
\* byte (27) or a carriage return (13) to the log file, whatever the input
\* and however it is split across the calls.
C23_NoEscNoCrInLog ==
    last.filtered => \A k \in DOMAIN bootlogd.fp : bootlogd.fp[k] \notin {27, 13}

\* the places of the log where a timestamp prefix stands
Stamps == {k \in DOMAIN bootlogd.fp : bootlogd.fp[k] = Timestamp}

\* the newline bytes handed over that another byte has followed
NewlinesFollowed == {k \in 1..(Len(last.fed) - 1) : last.fed[k] = 10}

\* C24: across write_log calls sharing one first_run that starts true, a
\* timestamp prefix is written exactly once before the first byte of the log
\* and exactly once after every newline byte before the next input byte is
\* processed, never in the middle of a line, also when a line is split across
\* two calls.
C24_TimestampAtLineStartsOnly ==
    /\ last.fed = <<>> => bootlogd.fp = <<>>
    /\ last.fed # <<>> => (bootlogd.fp # <<>> /\ bootlogd.fp[1] = Timestamp)
    /\ \A k \in Stamps : k = 1 \/ bootlogd.fp[k - 1] = 10
    /\ \A k \in DOMAIN bootlogd.fp :
          (bootlogd.fp[k] = 10 /\ k < Len(bootlogd.fp)) => bootlogd.fp[k + 1] = Timestamp
    /\ Cardinality(Stamps) =
          IF last.fed = <<>> THEN 0 ELSE 1 + Cardinality(NewlinesFollowed)
    /\ bootlogd.first_run <=> (last.fed = <<>> \/ last.fed[Len(last.fed)] = 10)

\* a line was split across two calls and a later line got its own prefix
C24_Witness ==
    /\ last.split
    /\ Cardinality(Stamps) = 2
    /\ ~bootlogd.first_run

====
